---- MODULE Spec2Model ----
(***************************************************************************)
(* Model of verify_metafiles.py: the tree collector (_find_elems), the two *)
(* collectors built on it, the two consistency checks, the verification    *)
(* runners and the TeamCity reporting scopes.                              *)
(*                                                                         *)
(* A string is a sequence of one-character strings; a path is a sequence   *)
(* of names, the first of which is the root given on the command line.     *)
(* Fixed literals of the program that hold no quote, bar, bracket or line  *)
(* break ("testStarted", "Metafile ", ...) are kept as one element.        *)
(***************************************************************************)
EXTENDS Integers, Sequences, FiniteSets, TLC

VARIABLES
    root,            \* Path(args.root)
    tree,            \* the directory tree below root: a set of [path, kind]
    unreadable,      \* directories whose listing raises OSError
    excluded_files,  \* _retrieve_excluded_args(args.excluded_files)
    excluded_dirs,   \* _retrieve_excluded_args(args.excluded_dirs)
    pc,              \* position of the script
    stack,           \* _find_elems_rec frames: the directories a frame's loop has left
    acc,             \* acc of _find_elems_rec
    listed,          \* directories iterdir() was called on
    assets,          \* assets of __main__
    metafiles,       \* metafiles of __main__
    suite,           \* name of the TestSuite being run
    todo,            \* items the runner's for loop has left
    test,            \* the item of the open Test scope
    events,          \* the records published so far, in order
    now,             \* latest reading of datetime.now()
    entered_at,      \* reading of the clock when the open Test scope was entered
    exited_at,       \* reading of the clock when the last Test scope was left
    exc              \* exception in flight

vars == <<root, tree, unreadable, excluded_files, excluded_dirs, pc, stack, acc,
          listed, assets, metafiles, suite, todo, test, events, now, entered_at,
          exited_at, exc>>

inputs == <<root, tree, unreadable, excluded_files, excluded_dirs>>

-----------------------------------------------------------------------------
(* Bounds of the model *)

\* entries (files and directories) in the tree below root
MaxEntries == 3

-----------------------------------------------------------------------------
(* Names *)

DotMeta == <<".", "m", "e", "t", "a">>

NameA == <<"a">>
NameAMeta == <<"a", ".", "m", "e", "t", "a">>
NameAC == <<"a", ".", "c">>
NameQuote == <<"r", "'">>

\* names an entry of the tree can have
EntryNames == {NameA, NameAMeta, NameAC}

\* names the root can have
RootNames == {NameA, NameQuote}

\* values of --exclude_file and of --exclude_dir
ExcludedChoices == {{}, {NameA}}

Kinds == {"file", "dir"}

-----------------------------------------------------------------------------
(* pathlib *)

Front(s) == SubSeq(s, 1, Len(s) - 1)

Last(s) == s[Len(s)]

\* p.name
Name(p) == Last(p)

\* p.parent
Parent(p) == Front(p)

\* name.rfind("."), counted from 1; 0 when there is none
RECURSIVE RFindDotFrom(_, _)
RFindDotFrom(name, i) ==
    IF i = 0 THEN 0
    ELSE IF name[i] = "." THEN i
    ELSE RFindDotFrom(name, i - 1)

RFindDot(name) == RFindDotFrom(name, Len(name))

\* p.suffix: the part of the name from its last dot on, when that dot is
\* neither the first nor the last character of the name
SuffixOfName(name) ==
    LET i == RFindDot(name)
    IN  IF 1 < i /\ i < Len(name) THEN SubSeq(name, i, Len(name)) ELSE <<>>

Suffix(p) == SuffixOfName(Name(p))

\* p.with_suffix(suffix): the old suffix, if any, is replaced by the new one
WithSuffix(p, suffix) ==
    LET name == Name(p)
        old == Suffix(p)
        stem == SubSeq(name, 1, Len(name) - Len(old))
    IN  Append(Parent(p), stem \o suffix)

\* p.is_dir()
IsDir(p) == p = root \/ [path |-> p, kind |-> "dir"] \in tree

\* p.is_file()
IsFile(p) == [path |-> p, kind |-> "file"] \in tree

\* p.iterdir()
IterDir(p) == {e.path : e \in {x \in tree : Parent(x.path) = p}}

\* str(p)
RECURSIVE Str(_)
Str(p) ==
    IF Len(p) = 1 THEN p[1]
    ELSE Str(Front(p)) \o <<"/">> \o Last(p)

-----------------------------------------------------------------------------
(* The trees the program is run on *)

Extensions(r, t) ==
    LET dirs == {<<r>>} \cup {e.path : e \in {x \in t : x.kind = "dir"}}
        paths == {Append(d, n) : d \in dirs, n \in EntryNames}
        free == {p \in paths : \A e \in t : e.path # p}
    IN  {t \cup {[path |-> p, kind |-> k]} : p \in free, k \in Kinds}

RECURSIVE Trees(_, _)
Trees(r, n) ==
    IF n = 0 THEN {{}}
    ELSE LET S == Trees(r, n - 1)
         IN  S \cup UNION {Extensions(r, t) : t \in S}

DirsOf(r, t) == {<<r>>} \cup {e.path : e \in {x \in t : x.kind = "dir"}}

-----------------------------------------------------------------------------
(* Event Reporter *)

TeamCityMsg(text, properties) == [text |-> text, properties |-> properties]

RECURSIVE Props(_, _)
Props(properties, i) ==
    IF i > Len(properties) THEN <<>>
    ELSE <<" ", properties[i][1], "=", "'">> \o properties[i][2] \o <<"'">>
         \o Props(properties, i + 1)

\* TeamCityMsg._msg
Msg(m) == <<"##teamcity", "[", m.text>> \o Props(m.properties, 1) \o <<"]">>

\* TeamCityMsg.publish
Publish(m) == events' = Append(events, m)

-----------------------------------------------------------------------------
(* Tree Collector *)

\* _is_excluded of gather_metafile_paths, had it left out excluded_dirs
MetafileIsExcludedEntersAll(p) ==
    IF IsFile(p) THEN Suffix(p) # DotMeta
    ELSE FALSE

\* _is_excluded of gather_metafile_paths, had it applied excluded_files to
\* the file a metafile belongs to
MetafileIsExcludedWithFiles(p) ==
    IF IsFile(p)
    THEN Suffix(p) # DotMeta \/ Name(WithSuffix(p, <<>>)) \in excluded_files
    ELSE Name(p) \in excluded_dirs

\* _is_excluded of gather_metafile_paths
MetafileIsExcluded(p) ==
    IF IsFile(p) THEN Suffix(p) # DotMeta
    ELSE Name(p) \in excluded_dirs

\* _is_not_metafile of gather_metafile_paths
IsNotMetafile(p) == IsDir(p)

\* _is_excluded of gather_asset_paths, had it left out the suffix test
AssetIsExcludedKeepsMeta(p) ==
    LET filter == IF IsDir(p) THEN excluded_dirs ELSE excluded_files
    IN  Name(p) \in filter

\* _is_excluded of gather_asset_paths
AssetIsExcluded(p) ==
    LET filter == IF IsDir(p) THEN excluded_dirs ELSE excluded_files
    IN  Name(p) \in filter \/ Suffix(p) = DotMeta

\* is_excluded_transverse as each collector passes it
IsExcludedTransverse(collector, p) ==
    IF collector = "assets" THEN AssetIsExcluded(p) ELSE MetafileIsExcluded(p)

\* is_excluded_result_ as each collector passes it
IsExcludedResult(collector, p) ==
    IF collector = "assets" THEN FALSE ELSE IsNotMetafile(p)

\* frames whose loop has nothing left return
RECURSIVE Unwind(_)
Unwind(s) ==
    IF s = <<>> THEN s
    ELSE IF Last(s) = {} THEN Unwind(Front(s))
    ELSE s

\* _find_elems_rec, had it skipped a directory it cannot list
FindElemsRecSkips(collector, p, stk, walking) ==
    /\ listed' = listed \cup {p}
    /\ LET paths == IF p \in unreadable THEN {}
                    ELSE {c \in IterDir(p) : ~IsExcludedTransverse(collector, c)}
       IN  /\ acc' = acc \cup {c \in paths : ~IsExcludedResult(collector, c)}
           /\ stack' = Unwind(Append(stk, {c \in paths : IsDir(c)}))
           /\ exc' = exc
           /\ pc' = walking

\* _find_elems_rec(p, acc) up to its loop, called with the frames stk open:
\* iterdir() raises on a directory that cannot be listed and nothing
\* catches it
FindElemsRec(collector, p, stk, walking) ==
    /\ listed' = listed \cup {p}
    /\ IF p \in unreadable
       THEN /\ exc' = "OSError"
            /\ pc' = "aborted"
            /\ stack' = <<>>
            /\ acc' = acc
       ELSE LET paths == {c \in IterDir(p) : ~IsExcludedTransverse(collector, c)}
            IN  /\ acc' = acc \cup {c \in paths : ~IsExcludedResult(collector, c)}
                /\ stack' = Unwind(Append(stk, {c \in paths : IsDir(c)}))
                /\ exc' = exc
                /\ pc' = walking

Collector == IF pc = "find_assets" THEN "assets" ELSE "metafiles"

\* _find_elems(root, ...) called by gather_asset_paths
GatherAssetsCall ==
    /\ pc = "gather_assets"
    /\ acc = {}
    /\ FindElemsRec("assets", root, <<>>, "find_assets")
    /\ UNCHANGED <<inputs, assets, metafiles, suite, todo, test, events, now,
                   entered_at, exited_at>>

\* one turn of the loop of the innermost frame that reaches a directory
FindElemsStep ==
    /\ pc \in {"find_assets", "find_metafiles"}
    /\ stack # <<>>
    /\ \E d \in Last(stack) :
         FindElemsRec(Collector, d,
                      [stack EXCEPT ![Len(stack)] = @ \ {d}], pc)
    /\ UNCHANGED <<inputs, assets, metafiles, suite, todo, test, events, now,
                   entered_at, exited_at>>

\* assets = gather_asset_paths(...)
GatherAssetsReturn ==
    /\ pc = "find_assets"
    /\ stack = <<>>
    /\ assets' = acc
    /\ acc' = {}
    /\ pc' = "gather_metafiles"
    /\ UNCHANGED <<inputs, stack, listed, metafiles, suite, todo, test, events,
                   now, entered_at, exited_at, exc>>

\* _find_elems(root, ...) called by gather_metafile_paths
GatherMetafilesCall ==
    /\ pc = "gather_metafiles"
    /\ acc = {}
    /\ FindElemsRec("metafiles", root, <<>>, "find_metafiles")
    /\ UNCHANGED <<inputs, assets, metafiles, suite, todo, test, events, now,
                   entered_at, exited_at>>

\* metafiles = gather_metafile_paths(...)
GatherMetafilesReturn ==
    /\ pc = "find_metafiles"
    /\ stack = <<>>
    /\ metafiles' = acc
    /\ acc' = {}
    /\ pc' = "verify_missing"
    /\ UNCHANGED <<inputs, stack, listed, assets, suite, todo, test, events,
                   now, entered_at, exited_at, exc>>

-----------------------------------------------------------------------------
(* Consistency Checks *)

\* is_dangling_metafile, had it looked the metafile itself up
is_dangling_metafile_unstripped(metafile, assets_) ==
    metafile \notin assets_

\* is_dangling_metafile
is_dangling_metafile(metafile, assets_) ==
    WithSuffix(metafile, <<>>) \notin assets_

\* is_missing_metafile, had it replaced the suffix of the asset by ".meta"
is_missing_metafile_replacing(asset, metafiles_) ==
    WithSuffix(asset, DotMeta) \notin metafiles_

\* is_missing_metafile
is_missing_metafile(asset, metafiles_) ==
    WithSuffix(asset, Suffix(asset) \o DotMeta) \notin metafiles_

-----------------------------------------------------------------------------
(* Scoped Reporting Contexts *)

\* Test._start_time: the dataclass default, datetime.now() read once when
\* the class body is executed; the clock starts there
ClassStartTime == 0

\* a reading of datetime.now(): the clock is read when a Test scope is
\* entered or left, and each reading is one unit later than the one before
ClockReading == now + 1

\* __exit__, had it returned True
ExitReturnsTrue == TRUE

\* TestSuite.__exit__ and Test.__exit__ return None: the with statement
\* does not swallow the exception in flight
ExitSuppresses == FALSE

\* TestSuite.__enter__
TestSuiteEnter(name) ==
    Publish(TeamCityMsg("testSuiteStarted", << <<"name", <<name>> >> >>))

\* TestSuite.__exit__
TestSuiteExit(name) ==
    Publish(TeamCityMsg("testSuiteFinished", << <<"name", <<name>> >> >>))

\* Test.__enter__
TestEnterMsg(name) ==
    TeamCityMsg("testStarted",
                << <<"name", name>>, <<"captureStandardOutput", <<"false">> >> >>)

\* Test.__exit__, with t the reading of datetime.now()
TestExitMsg(name, t) ==
    TeamCityMsg("testFinished",
                << <<"name", name>>, <<"duration", <<ToString(t - ClassStartTime)>> >> >>)

\* Test.fail
TestFailMsg(name, message, details) ==
    TeamCityMsg("testFailed",
                << <<"name", name>>, <<"message", message>>, <<"details", details>> >>)

-----------------------------------------------------------------------------
(* Verification Runners *)

\* the verdict of the runner's check on an item
Verdict(s, item) ==
    IF s = "missing_metafiles" THEN is_missing_metafile(item, metafiles)
    ELSE is_dangling_metafile(item, assets)

\* the failure the runner reports for an item
Failure(s, item) ==
    IF s = "missing_metafiles"
    THEN TestFailMsg(Str(item), <<"No .metafile">>,
                     <<"Metafile ">> \o Str(item) \o <<".meta not found.">>)
    ELSE TestFailMsg(Str(item), <<"No asset">>,
                     <<"No file corresponding with ">> \o Str(item) \o <<".">>)

\* the decorator of a runner enters its TestSuite and the for loop starts
RunnerCall(at, s, items) ==
    /\ pc = at
    /\ suite' = s
    /\ todo' = items
    /\ TestSuiteEnter(s)
    /\ pc' = "loop"
    /\ UNCHANGED <<inputs, stack, acc, listed, assets, metafiles, test, now,
                   entered_at, exited_at, exc>>

\* verify_missing_metafiles(assets, metafiles)
VerifyMissingCall == RunnerCall("verify_missing", "missing_metafiles", assets)

\* verify_dangling_metafiles, had its loop run over the assets
VerifyDanglingCallOverAssets ==
    RunnerCall("verify_dangling", "dangling_metafiles", assets)

\* verify_dangling_metafiles(assets, metafiles)
VerifyDanglingCall == RunnerCall("verify_dangling", "dangling_metafiles", metafiles)

\* the for loop takes its next item and enters with Test(name=str(item))
TestEnter ==
    /\ pc = "loop"
    /\ \E item \in todo :
         /\ todo' = todo \ {item}
         /\ test' = item
         /\ Publish(TestEnterMsg(Str(item)))
    /\ now' = ClockReading
    /\ entered_at' = ClockReading
    /\ pc' = "test_body"
    /\ UNCHANGED <<inputs, stack, acc, listed, assets, metafiles, suite,
                   exited_at, exc>>

\* the body of the with statement: the check, and test.fail when it says so
TestBody ==
    /\ pc = "test_body"
    /\ IF Verdict(suite, test)
       THEN Publish(Failure(suite, test))
       ELSE events' = events
    /\ pc' = "test_exit"
    /\ UNCHANGED <<inputs, stack, acc, listed, assets, metafiles, suite, todo,
                   test, now, entered_at, exited_at, exc>>

\* an exception raised while a scope is open (KeyboardInterrupt, or an
\* OSError of print): in a Test body, or in the loop between two tests
BodyRaises ==
    /\ pc \in {"loop", "test_body"}
    /\ exc' = "KeyboardInterrupt"
    /\ pc' = IF pc = "test_body" THEN "test_exit" ELSE "suite_exit"
    /\ UNCHANGED <<inputs, stack, acc, listed, assets, metafiles, suite, todo,
                   test, events, now, entered_at, exited_at>>

\* Test.__exit__ and what the with statement does with its result
TestExit ==
    /\ pc = "test_exit"
    /\ now' = ClockReading
    /\ exited_at' = ClockReading
    /\ Publish(TestExitMsg(Str(test), ClockReading))
    /\ IF exc # "none" /\ ~ExitSuppresses
       THEN pc' = "suite_exit" /\ exc' = exc
       ELSE pc' = "loop" /\ exc' = "none"
    /\ UNCHANGED <<inputs, stack, acc, listed, assets, metafiles, suite, todo,
                   test, entered_at>>

\* TestSuite.__exit__ when the runner returns or an exception leaves it
SuiteExit ==
    /\ \/ pc = "loop" /\ todo = {}
       \/ pc = "suite_exit"
    /\ TestSuiteExit(suite)
    /\ IF exc # "none" /\ ~ExitSuppresses
       THEN pc' = "aborted" /\ exc' = exc
       ELSE /\ exc' = "none"
            /\ pc' = IF suite = "missing_metafiles" THEN "verify_dangling"
                     ELSE "done"
    /\ UNCHANGED <<inputs, stack, acc, listed, assets, metafiles, suite, todo,
                   test, now, entered_at, exited_at>>

-----------------------------------------------------------------------------

Init ==
    /\ \E r \in RootNames :
         /\ root = <<r>>
         /\ tree \in Trees(r, MaxEntries)
         /\ \E d \in DirsOf(r, tree) : unreadable \in {{}, {d}}
    /\ excluded_files \in ExcludedChoices
    /\ excluded_dirs \in ExcludedChoices
    /\ pc = "gather_assets"
    /\ stack = <<>>
    /\ acc = {}
    /\ listed = {}
    /\ assets = {}
    /\ metafiles = {}
    /\ suite = ""
    /\ todo = {}
    /\ test = <<>>
    /\ events = <<>>
    /\ now = 0
    /\ entered_at = 0
    /\ exited_at = 0
    /\ exc = "none"

Next ==
    \/ GatherAssetsCall
    \/ FindElemsStep
    \/ GatherAssetsReturn
    \/ GatherMetafilesCall
    \/ GatherMetafilesReturn
    \/ VerifyMissingCall
    \/ VerifyDanglingCall
    \/ TestEnter
    \/ TestBody
    \/ TestExit
    \/ SuiteExit

Spec == Init /\ [][Next]_vars

\* the runs in which an exception may be raised inside an open scope, on a
\* readable tree with nothing excluded
InitInterrupt ==
    /\ Init
    /\ root = <<NameQuote>>
    /\ unreadable = {}
    /\ excluded_files = {}
    /\ excluded_dirs = {}

NextInterrupt ==
    \/ Next
    \/ BodyRaises

SpecInterrupt == InitInterrupt /\ [][NextInterrupt]_vars

-----------------------------------------------------------------------------
(* What the claims speak about *)

\* the paths of the entries of the tree: everything under root, at any depth
Entries == {e.path : e \in tree}

\* the ancestor directories of p that lie below root
AncestorsBelowRoot(p) == {SubSeq(p, 1, n) : n \in 2..(Len(p) - 1)}

\* the ancestor directories of p, root included
Ancestors(p) == {SubSeq(p, 1, n) : n \in 1..(Len(p) - 1)}

\* p with the literal ".meta" appended to its full name
AppendMeta(p) == Append(Parent(p), Name(p) \o DotMeta)

EndsWithMeta(name) ==
    /\ Len(name) >= Len(DotMeta)
    /\ SubSeq(name, Len(name) - Len(DotMeta) + 1, Len(name)) = DotMeta

\* p with its trailing ".meta" removed
RemoveMeta(p) ==
    IF EndsWithMeta(Name(p))
    THEN Append(Parent(p), SubSeq(Name(p), 1, Len(Name(p)) - Len(DotMeta)))
    ELSE p

\* the value of the name property of an event
EventName(e) == e.properties[1][2]

\* the testFailed events with this message published for this item
FailedEvents(message, item) ==
    {i \in DOMAIN events :
        /\ events[i].text = "testFailed"
        /\ EventName(events[i]) = Str(item)
        /\ events[i].properties[2][2] = message}

\* the events with this text and this name
EventsOf(text, name) ==
    {i \in DOMAIN events : events[i].text = text /\ EventName(events[i]) = name}

-----------------------------------------------------------------------------
(* C1 *)

\* the files under root the claim describes
FilesOfClaim ==
    {p \in Entries :
        /\ IsFile(p)
        /\ Name(p) \notin excluded_files
        /\ Suffix(p) # DotMeta
        /\ \A d \in AncestorsBelowRoot(p) : Name(d) \notin excluded_dirs}

\* C1 as stated: gather_asset_paths returns exactly the files under root, at
\* any depth, whose name is not in excluded_files, whose suffix is not .meta
\* and none of whose ancestor directories below root is named in excluded_dirs
C1_AssetsAreExactlyTheFiles ==
    pc = "gather_metafiles" => assets = FilesOfClaim

\* the entries under root the collector keeps
EntriesKept ==
    {p \in Entries :
        /\ Name(p) \notin (IF IsDir(p) THEN excluded_dirs ELSE excluded_files)
        /\ Suffix(p) # DotMeta
        /\ \A d \in AncestorsBelowRoot(p) :
              Name(d) \notin excluded_dirs /\ Suffix(d) # DotMeta}

\* C1 as amended: gather_asset_paths returns exactly the entries under root,
\* at any depth, directories as well as files, whose name is not in the
\* exclusion set of their kind (excluded_dirs for a directory, excluded_files
\* for anything else), whose suffix is not .meta, and none of whose ancestor
\* directories below root is named in excluded_dirs or has the suffix .meta
C1_AssetsAreExactlyTheEntriesKept ==
    pc = "gather_metafiles" => assets = EntriesKept

\* the collector has returned a directory and a file inside it, and has
\* left out another entry of that directory
C1_Witness ==
    /\ pc = "gather_metafiles"
    /\ \E d \in assets :
          /\ IsDir(d)
          /\ \E p \in assets : IsFile(p) /\ Parent(p) = d
          /\ \E p \in Entries \ assets : Parent(p) = d

-----------------------------------------------------------------------------
(* C2 *)

\* the paths that are one of these directories or lie beneath one of them
Within(dirs) ==
    {p \in Entries \cup {root} : p \in dirs \/ Ancestors(p) \cap dirs # {}}

\* no path of this set is collected, in a result or in the accumulator, and
\* none of them is listed
NeverVisited(paths) ==
    /\ paths \cap (assets \cup metafiles \cup acc) = {}
    /\ paths \cap listed = {}

\* the directories named in excluded_dirs, root included
ExcludedDirs ==
    {p \in Entries \cup {root} : IsDir(p) /\ Name(p) \in excluded_dirs}

\* C2 as stated: no directory named in excluded_dirs, and no path beneath
\* one, is in either collected set, and no such directory is listed
C2_ExcludedDirsNeverVisited == NeverVisited(Within(ExcludedDirs))

\* C2 as amended: no directory below root that is named in excluded_dirs,
\* and no path beneath one, is in either collected set, and no such
\* directory is listed; root itself is listed whatever its name
C2_ExcludedDirsBelowRootNeverVisited ==
    NeverVisited(Within(ExcludedDirs \ {root}))

\* both collectors have returned on a tree where an excluded directory below
\* root holds a file and a .meta file
C2_Witness ==
    /\ pc = "verify_missing"
    /\ \E d \in ExcludedDirs \ {root} :
          /\ \E p \in Entries : Parent(p) = d /\ IsFile(p) /\ Suffix(p) = DotMeta
          /\ \E p \in Entries : Parent(p) = d /\ IsFile(p) /\ Suffix(p) # DotMeta

-----------------------------------------------------------------------------
(* C3 *)

\* C3: when verify_missing_metafiles has returned, every asset whose path
\* with ".meta" appended is not in the metafile set has exactly one
\* testFailed event with the message 'No .metafile', every other asset has
\* none, and no such event names anything that is not an asset
C3_MissingReportedExactly ==
    pc = "verify_dangling" =>
        /\ \A a \in assets :
              Cardinality(FailedEvents(<<"No .metafile">>, a)) =
                  IF AppendMeta(a) \in metafiles THEN 0 ELSE 1
        /\ \A i \in DOMAIN events :
              events[i].text = "testFailed" =>
                  /\ events[i].properties[2][2] = <<"No .metafile">>
                  /\ \E a \in assets : EventName(events[i]) = Str(a)

\* the runner has returned with one asset reported and one asset passed, the
\* reported one having a suffix of its own
C3_Witness ==
    /\ pc = "verify_dangling"
    /\ \E a \in assets :
          /\ Suffix(a) # <<>>
          /\ FailedEvents(<<"No .metafile">>, a) # {}
    /\ \E a \in assets : FailedEvents(<<"No .metafile">>, a) = {}

-----------------------------------------------------------------------------
(* C4 *)

-----------------------------------------------------------------------------
(* C5 *)

\* C5: the duration of a testFinished event is the time between the entry
\* and the exit of the Test scope that published it
C5_DurationIsTimeInScope ==
    (events # <<>> /\ Last(events).text = "testFinished") =>
        Last(events).properties[2][2] = <<ToString(exited_at - entered_at)>>

-----------------------------------------------------------------------------
(* C6 *)

\* the position of the first quote at or after i that no bar escapes;
\* 0 when there is none
RECURSIVE FirstUnescapedQuote(_, _)
FirstUnescapedQuote(r, i) ==
    IF i > Len(r) THEN 0
    ELSE IF r[i] = "|" THEN FirstUnescapedQuote(r, i + 2)
    ELSE IF r[i] = "'" THEN i
    ELSE FirstUnescapedQuote(r, i + 1)

\* the position in Msg(m) of the quote that opens the k-th value
RECURSIVE OpeningQuote(_, _)
OpeningQuote(m, k) ==
    IF k = 1 THEN 7
    ELSE OpeningQuote(m, k - 1) + Len(m.properties[k - 1][2]) + 5

\* the position in Msg(m) of the quote that closes the k-th value
ClosingQuote(m, k) == OpeningQuote(m, k) + Len(m.properties[k][2]) + 1

\* C6: every published record is one line, and the quote that closes a
\* value is the first unescaped quote after the one that opens it
C6_ValuesAreEscaped ==
    \A i \in DOMAIN events :
        LET r == Msg(events[i])
        IN  /\ \A j \in DOMAIN r : r[j] # "\n"
            /\ \A k \in DOMAIN events[i].properties :
                  /\ r[OpeningQuote(events[i], k)] = "'"
                  /\ FirstUnescapedQuote(r, OpeningQuote(events[i], k) + 1)
                        = ClosingQuote(events[i], k)

-----------------------------------------------------------------------------
(* C7 *)

\* a Test scope is open on this item
TestOpen(item) == pc \in {"test_body", "test_exit"} /\ test = item

\* a TestSuite scope is open under this name
SuiteOpen(s) == pc \in {"loop", "test_body", "test_exit", "suite_exit"} /\ suite = s

\* every scope that was entered and left has published one started and one
\* finished event, an open scope one started event and no finished event
ScopesBalanced ==
    /\ \A item \in assets \cup metafiles :
          LET started == Cardinality(EventsOf("testStarted", Str(item)))
              finished == Cardinality(EventsOf("testFinished", Str(item)))
          IN  /\ started \in {0, 1}
              /\ finished = IF TestOpen(item) THEN started - 1 ELSE started
    /\ \A s \in {"missing_metafiles", "dangling_metafiles"} :
          LET started == Cardinality(EventsOf("testSuiteStarted", <<s>>))
              finished == Cardinality(EventsOf("testSuiteFinished", <<s>>))
          IN  /\ started \in {0, 1}
              /\ finished = IF SuiteOpen(s) THEN started - 1 ELSE started

\* an exception in flight is on its way out of the scopes, and has left
\* them only after the finished event of the suite
ExceptionOnItsWayOut ==
    /\ exc # "none" => pc \in {"test_exit", "suite_exit", "aborted"}
    /\ (pc = "aborted" /\ exc = "KeyboardInterrupt") =>
          Last(events).text = "testSuiteFinished"
    /\ pc = "done" => exc = "none"

\* C7: on every exit path of a Suite scope and of a Test scope exactly one
\* finished event with the scope's name follows its started event, and an
\* exception raised in the body is never dropped: it leaves the scopes after
\* their finished events and ends the run
C7_ScopesCloseAndPropagate ==
    /\ [](ScopesBalanced /\ ExceptionOnItsWayOut)
    /\ [][exc # "none" => exc' = exc]_vars

\* an exception raised in a Test body has left both scopes: the last two
\* events are the finished events of the test and of the suite
C7_Witness ==
    /\ pc = "aborted"
    /\ exc = "KeyboardInterrupt"
    /\ Len(events) >= 3
    /\ events[Len(events) - 1].text = "testFinished"
    /\ events[Len(events) - 2].text = "testStarted"
    /\ Last(events).text = "testSuiteFinished"

-----------------------------------------------------------------------------
(* C8 *)

\* C8: once the listing of a directory has failed the run is aborted by the
\* OSError, no runner has been started and no event has been published
C8_ListingFailureAborts ==
    /\ listed \cap unreadable # {} =>
          /\ pc = "aborted"
          /\ exc = "OSError"
    /\ (pc = "aborted" /\ exc = "OSError") =>
          /\ suite = ""
          /\ events = <<>>

\* the listing of a directory below root failed during metafile collection,
\* after the assets had been collected
C8_Witness ==
    /\ pc = "aborted"
    /\ exc = "OSError"
    /\ assets # {}
    /\ root \notin unreadable
    /\ listed \cap unreadable # {}

-----------------------------------------------------------------------------
(* C9 *)

\* the position after the test blocks that start at i, when they are one
\* block for each of these names and nothing else; 0 otherwise
RECURSIVE Blocks(_, _)
Blocks(i, names) ==
    IF i > Len(events) THEN 0
    ELSE IF events[i].text # "testStarted"
    THEN (IF names = {} THEN i ELSE 0)
    ELSE LET n == EventName(events[i])
             j == IF /\ i + 1 <= Len(events)
                     /\ events[i + 1].text = "testFailed"
                     /\ EventName(events[i + 1]) = n
                  THEN i + 2 ELSE i + 1
         IN  IF /\ n \in names
                /\ j <= Len(events)
                /\ events[j].text = "testFinished"
                /\ EventName(events[j]) = n
             THEN Blocks(j + 1, names \ {n})
             ELSE 0

\* the position after the suite that starts at i, when it is the started
\* event of s, one block for each of these names, and the finished event of
\* s; 0 otherwise
SuiteAt(i, s, names) ==
    IF i = 0 \/ i > Len(events) THEN 0
    ELSE IF events[i].text # "testSuiteStarted" \/ EventName(events[i]) # <<s>>
    THEN 0
    ELSE LET k == Blocks(i + 1, names)
         IN  IF /\ k # 0
                /\ events[k].text = "testSuiteFinished"
                /\ EventName(events[k]) = <<s>>
             THEN k + 1
             ELSE 0

\* C9: the events of a complete run are the missing_metafiles suite with one
\* uninterrupted block (started, at most one failed, finished) for each
\* asset, then the dangling_metafiles suite with one for each metafile, and
\* nothing else
C9_EventStreamWellNested ==
    pc = "done" =>
        SuiteAt(SuiteAt(1, "missing_metafiles", {Str(a) : a \in assets}),
                "dangling_metafiles", {Str(m) : m \in metafiles})
            = Len(events) + 1

\* a complete run that reported two assets and a metafile
C9_Witness ==
    /\ pc = "done"
    /\ Cardinality(assets) = 2
    /\ Cardinality(metafiles) = 1
    /\ \E i \in DOMAIN events : events[i].text = "testFailed"

-----------------------------------------------------------------------------
(* C10 *)

\* the files named in excluded_files and the directories named in
\* excluded_dirs whose companion .meta file lies in a listed directory
ExcludedWithCompanion ==
    {p \in Entries :
        /\ \/ IsFile(p) /\ Name(p) \in excluded_files
           \/ IsDir(p) /\ Name(p) \in excluded_dirs
        /\ IsFile(AppendMeta(p))
        /\ Parent(p) \in listed}

\* C10: in a complete run the companion .meta file of an excluded file or
\* directory, when it lies in a traversed directory, is in the metafile set,
\* its counterpart is not in the asset set, and verify_dangling_metafiles
\* has published a testFailed event for it
C10_CompanionOfExcludedIsDangling ==
    pc = "done" =>
        \A p \in ExcludedWithCompanion :
            /\ AppendMeta(p) \in metafiles
            /\ p \notin assets
            /\ FailedEvents(<<"No asset">>, AppendMeta(p)) # {}

\* a complete run on a tree with an excluded file that has a companion
C10_Witness ==
    /\ pc = "done"
    /\ \E p \in ExcludedWithCompanion : IsFile(p)

====
